---- MODULE Spec2Model ----
(***************************************************************************)
(* A model of edopro-replay-parser: the command line facade (main.cpp),    *)
(* the header codec (read_header), the payload reader                      *)
(* (read_replay_contents, decompress.cpp), the preamble walkers and the    *)
(* message stream decoder (parser.cpp, analyze).                           *)
(*                                                                         *)
(* Buffers are modelled by offsets: a pointer into a buffer is the offset  *)
(* from the buffer's first byte, the end pointer is the buffer's size.     *)
(* The bytes of the input are chosen when the program reads them; a value  *)
(* the program reads twice is stored the first time.                       *)
(***************************************************************************)
EXTENDS Integers, Sequences, FiniteSets, TLC

\* ------------------------------------------------------------------ bounds
\* Largest message stream (in bytes) handed to analyze on its own.
MaxStream == 15
\* Largest msg_size drawn for an ordinary frame.
MaxMsgSize == 2
\* Largest bytes_read the encoder reports.
MaxRead == 3

\* Largest header.size (bytes of decompressed output) given to decompress on
\* its own.
MaxOut == 3
\* Largest number of whole 2048-byte chunks of compressed input.
MaxChunks == 2

\* Bits of the model's uint32_t.  TLC's integers are 32-bit signed, so the
\* 32-bit unsigned arithmetic of the program is modelled at this width: the
\* largest value, TwoTo32 - 1, stands for 0xFFFFFFFF and sums and products
\* wrap at TwoTo32 as they do in the program.
UintBits == 16

\* --------------------------------------------------------------- constants
TwoTo32 == 2 ^ UintBits
\* parser.cpp:228, the OLD_REPLAY_FORMAT message number.
OLD_REPLAY_FORMAT == 231
\* sizeof(ReplayHeader), replay_data.hpp:32-42: six uint32_t and props[8].
SizeofReplayHeader == 6 * 4 + 8
\* sizeof(ExtendedReplayHeader), replay_data.hpp:44-50.
SizeofExtendedReplayHeader == SizeofReplayHeader + 8 + 4 * 8
\* nullptr
Null == -1

VARIABLES
    pc,          \* position of the program
    an,          \* analyze: its locals and the AnalyzeResult it returns
    lz,          \* decompress: its locals and the vector it returns
    err,         \* the diagnostic written to std::cerr ("" when none)
    args,        \* argv[1 .. argc - 2], the options on the command line
    file,        \* the replay file: its size and the values its bytes hold
    opts,        \* the print_*_opt flags that are set
    out,         \* the sections written to std::cout, in order
    exit,        \* how main ended: "running", "success", "failure", "abort"
    yrpx_header, \* main: yrpx_header
    pth_size,    \* main: pth_buf.size()
    analysis,    \* main: analysis (std::optional<AnalyzeResult>)
    yrp_header,  \* main: yrp_header
    ptr_to_msgs, \* main: ptr_to_msgs
    rs,          \* main: the locals of the loop that reads the responses
    ndebug,      \* the build: NDEBUG is defined, assert does nothing
    oob,         \* history: what the reads made so far have left
    ctx          \* parser.cpp: the ReplayContext

mainVars == <<args, file, opts, out, exit, yrpx_header, pth_size, analysis,
              yrp_header, ptr_to_msgs, rs, ndebug, oob, ctx>>
vars == <<pc, an, lz, err, mainVars>>

\* ---------------------------------------------------------- decompress
\* replay_data.hpp:20
REPLAY_COMPRESSED == 1
\* decompress.cpp:64, std::array<uint8_t, 2048U> buffer
LzmaBufferSize == 2048

\* flags & bit, for a bit that is a power of two.
HasFlag(flags, bit) == (flags \div bit) % 2 = 1

\* The return values of liblzma's lzma_code that decompress tells apart;
\* LZMA_BUF_ERROR stands for every error other than LZMA_DATA_ERROR.
LzmaCodes == {"LZMA_OK", "LZMA_STREAM_END", "LZMA_DATA_ERROR", "LZMA_BUF_ERROR"}

NoDecompress ==
    [size |-> 0, flags |-> 0, max_size |-> 0, in_left |-> 0, total_out |-> 0,
     phase |-> "none", failed |-> FALSE, ret |-> 0, err |-> "",
     prefix_out |-> 0, last |-> "none", eof |-> FALSE]

\* decompress.cpp:13-18 and 47-51: the call, for a header with the given
\* size and flags, `input` bytes of stream and the max_size argument.  ret is
\* the size of the vector `ret`; phase, prefix_out, last and eof are history.
DecompressEntry(size, flags, input, max_size) ==
    [size |-> size, flags |-> flags, max_size |-> max_size,
     in_left |-> input, total_out |-> 0, phase |-> "prefix",
     failed |-> FALSE, ret |-> max_size, err |-> "",
     prefix_out |-> 0, last |-> "none", eof |-> FALSE]

\* decompress.cpp:25-30, the lambda `fail`: the vector is cleared.
DecompressFail(d, e) ==
    [d EXCEPT !.phase = "returned", !.failed = TRUE, !.ret = 0,
              !.err = "Error decompressing replay: " \o e]

\* decompress.cpp:83 (and 22), return ret
DecompressOk(d) == [d EXCEPT !.phase = "returned"]

\* decompress.cpp:76, step == LZMA_DATA_ERROR && stream.total_out ==
\* header.size (step is d.last).
DataErrorIgnored(d) == d.last = "LZMA_DATA_ERROR" /\ d.total_out = d.size

\* Mutant: the final size check is missing.
SizeMismatch_Never(d) == FALSE

\* decompress.cpp:81, stream.total_out != max_size
SizeMismatch(d) == d.total_out # d.max_size

\* decompress.cpp:17-63: the copy of an uncompressed stream, or the set-up of
\* the decoder and the 13-byte prefix fed to it.  init_ok is whether
\* lzma_alone_decoder returned LZMA_OK, code the first lzma_code result that
\* is not LZMA_OK while the prefix is fed (LZMA_OK when there is none),
\* produced the bytes the decoder has put out by then.
DecompressPrefix(d, init_ok, code, produced) ==
    IF ~HasFlag(d.flags, REPLAY_COMPRESSED) THEN DecompressOk(d)
    ELSE IF ~init_ok THEN
        DecompressFail(d, "Unable to initialize decode stream")
    ELSE IF code # "LZMA_OK" THEN
        DecompressFail([d EXCEPT !.total_out = produced,
                                 !.prefix_out = produced],
                       "Cannot decode header")
    ELSE IF produced # 0 THEN
        DecompressFail([d EXCEPT !.total_out = produced,
                                 !.prefix_out = produced],
                       "Unexpected total decompressed size")
    ELSE [d EXCEPT !.phase = "loop"]

\* decompress.cpp:66-83: one iteration of the decoding loop, in which
\* lzma_code returns `code` after putting out `produced` more bytes, and the
\* return that follows when the loop is left.
DecompressChunk(d, code, produced) ==
    LET got == IF d.in_left < LzmaBufferSize THEN d.in_left
               ELSE LzmaBufferSize
        t == [d EXCEPT !.in_left = @ - got,
                       !.eof = d.in_left < LzmaBufferSize,
                       !.total_out = @ + produced,
                       !.last = code]
        done == IF SizeMismatch(t)
                THEN DecompressFail(t, "Total decompressed size mismatch")
                ELSE DecompressOk(t)
    IN
    IF code = "LZMA_STREAM_END" \/ t.eof THEN done
    ELSE IF code # "LZMA_OK" THEN
        IF DataErrorIgnored(t) THEN done
        ELSE DecompressFail(t, "Stream decoding failed")
    ELSE t

\* The decoder writes to ret, of max_size bytes (decompress.cpp:50-51): it
\* puts out no more than is left of them.
DecoderOutput(d) == 0 .. (d.max_size - d.total_out)

\* decompress takes its first step.
DecompressBegin ==
    /\ pc = "decompress"
    /\ lz.phase = "prefix"
    /\ \E init_ok \in BOOLEAN, code \in LzmaCodes, produced \in DecoderOutput(lz) :
        lz' = DecompressPrefix(lz, init_ok, code, produced)
    /\ pc' = IF lz'.phase = "returned" THEN "decompress_done" ELSE pc
    /\ err' = lz'.err
    /\ UNCHANGED <<an, mainVars>>

\* decompress takes the next iteration of its decoding loop.
DecompressLoop ==
    /\ pc = "decompress"
    /\ lz.phase = "loop"
    /\ \E code \in LzmaCodes, produced \in DecoderOutput(lz) :
        lz' = DecompressChunk(lz, code, produced)
    /\ pc' = IF lz'.phase = "returned" THEN "decompress_done" ELSE pc
    /\ err' = lz'.err
    /\ UNCHANGED <<an, mainVars>>

\* The lengths of compressed input: whole chunks, with or without a rest.
InputLengths ==
    {c * LzmaBufferSize + r : c \in 0 .. MaxChunks, r \in {0, 1}}

\* main.cpp:103-104 and 313-314: both callers pass header.base.size as
\* max_size.
CallMaxSize(size) == size

\* ---------------------------------------------------------- the header
\* replay_data.hpp:14-15
REPLAY_YRP1 == 829452921
REPLAY_YRPX == 1483764345
\* replay_data.hpp:23-29
REPLAY_SINGLE_MODE == 8
REPLAY_HAND_TEST == 64
REPLAY_64BIT_DUELFLAG == 256
REPLAY_EXTENDED_HEADER == 512
\* replay_data.hpp:46
latest_header_version == 1

\* The header a buffer of zero bytes holds (ReadHeaderResult r{}).
NoHeader == [type |-> 0, version |-> 0, flags |-> 0, size |-> 0,
             header_version |-> 0]

\* Mutant: the extended header is required of every file or buffer from
\* sizeof(ReplayHeader) bytes on.
TooSmall_Base(n) == n < SizeofReplayHeader

\* main.cpp:227 and 295: fewer bytes than sizeof(ExtendedReplayHeader).
TooSmall(n) == n < SizeofExtendedReplayHeader

\* Mutant: read_header accepts any header version.
VersionTooNew_Never(h) == FALSE

\* main.cpp:72-75: flags has REPLAY_EXTENDED_HEADER and header_version is
\* above latest_header_version.
VersionTooNew(h) ==
    /\ HasFlag(h.flags, REPLAY_EXTENDED_HEADER)
    /\ h.header_version > latest_header_version

\* main.cpp:61-83, read_header on a buffer holding the header `bytes`: the
\* base is copied, the extended part only with REPLAY_EXTENDED_HEADER.
read_header(bytes, magic) ==
    LET base == [bytes EXCEPT !.header_version = 0] IN
    IF bytes.type # magic THEN
        [success |-> FALSE, header |-> base, err |-> "Not a yrp or yrpX file"]
    ELSE IF VersionTooNew(bytes) THEN
        [success |-> FALSE, header |-> bytes,
         err |-> "Replay version is too new"]
    ELSE
        [success |-> TRUE, err |-> "",
         header |-> IF HasFlag(bytes.flags, REPLAY_EXTENDED_HEADER)
                    THEN bytes ELSE base]

\* main.cpp:88-90 and 305-307, header_size
HeaderSize(flags) ==
    IF HasFlag(flags, REPLAY_EXTENDED_HEADER)
    THEN SizeofExtendedReplayHeader ELSE SizeofReplayHeader

\* ------------------------------------------------------ the command line
\* main.cpp:186-220: the options and the flag each sets, named after the
\* section it prints.
OptionFlag ==
    [o \in {"--names", "--date", "--decks", "--duel-seed", "--duel-options",
            "--duel-msgs", "--duel-resps"} |->
        CASE o = "--names" -> "names"
          [] o = "--date" -> "date"
          [] o = "--decks" -> "decks"
          [] o = "--duel-seed" -> "duel_seed"
          [] o = "--duel-options" -> "duel_options"
          [] o = "--duel-msgs" -> "duel_msgs"
          [] o = "--duel-resps" -> "duel_resps"]
Options == DOMAIN OptionFlag

\* Mutant: an option given twice is switched off again.
SetOption_Toggle(flags, o) ==
    IF OptionFlag[o] \in flags THEN flags \ {OptionFlag[o]}
    ELSE flags \cup {OptionFlag[o]}

\* main.cpp:186-220, print_*_opt = true
SetOption(flags, o) == flags \cup {OptionFlag[o]}

RECURSIVE ParseOptionsFrom(_, _, _)
\* main.cpp:183-224: the loop over argv[a], from a = i with `flags` set.
ParseOptionsFrom(argv, i, flags) ==
    IF i > Len(argv) THEN [ok |-> TRUE, opts |-> flags]
    ELSE IF argv[i] \in Options
         THEN ParseOptionsFrom(argv, i + 1, SetOption(flags, argv[i]))
         ELSE [ok |-> FALSE, opts |-> flags]

\* main ends in failure with diagnostic e.
Fail(e) == exit' = "failure" /\ err' = e /\ pc' = "exit"

\* main.cpp:163-224: the argument count, the file, the options.
ParseOptions ==
    /\ pc = "start"
    /\ LET r == ParseOptionsFrom(args, 1, {}) IN
       IF Len(args) = 0 THEN
           Fail("No input file or flags") /\ UNCHANGED opts
       ELSE IF ~file.opens THEN
           Fail("Could not open file") /\ UNCHANGED opts
       ELSE IF ~r.ok THEN
           Fail("Unrecognized option") /\ UNCHANGED opts
       ELSE
           /\ opts' = r.opts
           /\ pc' = "filesize"
           /\ UNCHANGED <<exit, err>>
    /\ UNCHANGED <<an, lz, args, file, out, yrpx_header, pth_size, analysis,
                   yrp_header, ptr_to_msgs, rs, ndebug, oob, ctx>>

\* main.cpp:225-231: the size of the file.
CheckFileSize ==
    /\ pc = "filesize"
    /\ IF TooSmall(file.size) THEN Fail("File too small")
       ELSE pc' = "outer_header" /\ UNCHANGED <<exit, err>>
    /\ UNCHANGED <<an, lz, args, file, opts, out, yrpx_header, pth_size,
                   analysis, yrp_header, ptr_to_msgs, rs, ndebug, oob, ctx>>

\* main.cpp:233-247: the outer header and the hand test flag.
ReadOuterHeader ==
    /\ pc = "outer_header"
    /\ LET r == read_header(file.header, REPLAY_YRPX) IN
       /\ yrpx_header' = r.header
       /\ IF ~r.success THEN Fail(r.err)
          ELSE IF HasFlag(r.header.flags, REPLAY_HAND_TEST)
          THEN Fail("Replay is from hand test mode")
          ELSE pc' = "contents" /\ UNCHANGED <<exit, err>>
    /\ UNCHANGED <<an, lz, args, file, opts, out, pth_size, analysis,
                   yrp_header, ptr_to_msgs, rs, ndebug, oob, ctx>>

\* --------------------------------------------------------- the cursor
\* What a read can leave: "payload" when it goes past the end of the payload,
\* "buffer" when it goes past the end of the allocation that holds the
\* payload (undefined behaviour).

\* The limits of a buffer: the offsets at which its payload and its
\* allocation end.
Limits(payload, alloc) == [payload |-> payload, alloc |-> alloc]

Outside(end, lim) ==
    (IF end > lim.payload THEN {"payload"} ELSE {})
    \cup (IF end > lim.alloc THEN {"buffer"} ELSE {})

Cursor(p) == [ptr |-> p, oob |-> {}]

\* read.inl:1-8, read<T> with sizeof(T) = k: memcpy of k bytes at ptr, then
\* ptr += k.  Nothing compares ptr with the end of the buffer.
Read(c, k, lim) ==
    [ptr |-> c.ptr + k,
     oob |-> IF k = 0 THEN c.oob ELSE c.oob \cup Outside(c.ptr + k, lim)]

\* ptr += k
Skip(c, k) == [c EXCEPT !.ptr = @ + k]

\* 40U * n, a product of unsigned ints.
Mul32(a, b) == (a * b) % TwoTo32

\* main.cpp:116-133, skip_duelists, on a preamble whose team counts are
\* pre.t1 and pre.t2.
skip_duelists(flags, c, pre, lim) ==
    IF HasFlag(flags, REPLAY_SINGLE_MODE) THEN
        [num |-> 2, c |-> Skip(c, Mul32(40, 2))]
    ELSE
        LET c1 == Skip(Read(c, 4, lim), Mul32(40, pre.t1))
            c2 == Skip(Read(c1, 4, lim), Mul32(40, pre.t2))
        IN [num |-> (pre.t1 + pre.t2) % TwoTo32, c |-> c2]

\* main.cpp:135-142, read_duel_flags
read_duel_flags(flags, c, lim) ==
    Read(c, IF HasFlag(flags, REPLAY_64BIT_DUELFLAG) THEN 8 ELSE 4, lim)

\* main.cpp:144-151, read_until_decks
read_until_decks(flags, c, pre, lim) ==
    LET r == skip_duelists(flags, c, pre, lim) IN
    [num |-> r.num, c |-> read_duel_flags(flags, Skip(r.c, 4 * 3), lim)]

\* print_names.cpp:67-94, print_names: two names in single mode, else for
\* each team its count and that many names.  A name is read up to its
\* terminator; it is taken here as the 40 bytes of its block.
print_names(flags, c, pre, lim) ==
    IF HasFlag(flags, REPLAY_SINGLE_MODE) THEN Read(c, 40 * 2, lim)
    ELSE Read(Read(Read(Read(c, 4, lim), 40 * pre.t1, lim), 4, lim),
              40 * pre.t2, lim)

\* ------------------------------------------------- the replay contents
\* The results of liblzma for one call of decompress: whether the decoder
\* could be set up, the result of feeding the prefix, and for each iteration
\* of the decoding loop the result of lzma_code and whether it filled the
\* output.
DecoderScripts(d) ==
    [init_ok : BOOLEAN,
     code : {"LZMA_OK", "LZMA_DATA_ERROR"},
     out : {n \in {0, 1} : n <= d.max_size},
     steps : [1 .. (d.in_left \div LzmaBufferSize) + 1 ->
                 [code : LzmaCodes, fill : BOOLEAN]]]

RECURSIVE DecompressRun(_, _, _)
\* decompress.cpp:66-83: the decoding loop, from its i-th iteration on.
DecompressRun(d, steps, i) ==
    IF d.phase = "returned" \/ i > Len(steps) THEN d
    ELSE DecompressRun(
             DecompressChunk(d, steps[i].code,
                             IF steps[i].fill THEN d.max_size - d.total_out
                             ELSE 0),
             steps, i + 1)

\* decompress.cpp:13-84, one call of decompress.
decompress(size, flags, input, max_size, sc) ==
    DecompressRun(
        DecompressPrefix(DecompressEntry(size, flags, input, max_size),
                         sc.init_ok, sc.code, sc.out),
        sc.steps, 1)

\* main.cpp:108, header.base.size != filesize
FileSizeMismatch(header, filesize) == header.size # filesize

\* main.cpp:84-114 and 248-250: read_replay_contents and the check of its
\* result.  decompress is given the whole of pth_buf, filesize bytes.
ReadReplayContents ==
    /\ pc = "contents"
    /\ IF HasFlag(yrpx_header.flags, REPLAY_COMPRESSED) THEN
           \E sc \in DecoderScripts(
                         DecompressEntry(yrpx_header.size, yrpx_header.flags,
                                         file.size, yrpx_header.size)) :
               LET d == decompress(yrpx_header.size, yrpx_header.flags,
                                   file.size, CallMaxSize(yrpx_header.size),
                                   sc)
               IN /\ lz' = d
                  /\ IF d.ret = 0
                     THEN Fail(d.err) /\ UNCHANGED pth_size
                     ELSE /\ pth_size' = d.ret
                          /\ pc' = "names"
                          /\ UNCHANGED <<exit, err>>
       ELSE
           /\ UNCHANGED lz
           /\ IF FileSizeMismatch(yrpx_header, file.size)
              THEN Fail("File size doesn't match header")
                   /\ UNCHANGED pth_size
              ELSE /\ pth_size' = file.size
                   /\ pc' = "names"
                   /\ UNCHANGED <<exit, err>>
    /\ UNCHANGED <<an, args, file, opts, out, yrpx_header, analysis,
                   yrp_header, ptr_to_msgs, rs, ndebug, oob, ctx>>

\* The offset in pth_buf at which the payload ends: the bytes read from the
\* file (main.cpp:93-95) or the bytes decompressed.
PayloadEnd ==
    IF HasFlag(yrpx_header.flags, REPLAY_COMPRESSED) THEN pth_size
    ELSE pth_size - HeaderSize(yrpx_header.flags)

PthLimits == Limits(PayloadEnd, pth_size)

\* out receives a section when its option is set.
Emit(o, section) == IF section \in opts THEN Append(o, section) ELSE o

\* main.cpp:255-256 and 267-269
NeedsYrp == opts \cap {"decks", "duel_seed", "duel_options", "duel_resps"} # {}
NeedsAnalysis == "duel_msgs" \in opts \/ NeedsYrp

\* Mutant: the duel messages are printed with the names and the date.
BeforeAnalysis_WithMsgs == <<"names", "date", "duel_msgs">>

\* main.cpp:251-254: the sections printed before the early return and before
\* anything is analyzed.
BeforeAnalysis == <<"names", "date">>

RECURSIVE EmitAll(_, _, _)
\* out receives the sections of `sections` from the i-th on.
EmitAll(o, sections, i) ==
    IF i > Len(sections) THEN o
    ELSE EmitAll(Emit(o, sections[i]), sections, i + 1)

\* main.cpp:251-257: the names, the date and the early return.
EmitNamesDate ==
    /\ pc = "names"
    /\ out' = EmitAll(out, BeforeAnalysis, 1)
    /\ oob' = IF "names" \in opts
              THEN oob \cup print_names(yrpx_header.flags, Cursor(0),
                                        file.pre, PthLimits).oob
              ELSE oob
    /\ IF ~NeedsAnalysis
       THEN exit' = "success" /\ pc' = "exit"
       ELSE pc' = "msgs_ptr" /\ UNCHANGED exit
    /\ UNCHANGED <<an, lz, err, args, file, opts, yrpx_header, pth_size,
                   analysis, yrp_header, ptr_to_msgs, rs, ndebug, ctx>>

\* main.cpp:270, (yrpx_header.base.version >> 16) & 0xff
CoreVersionMajor(version) == (version \div 65536) % 256

\* main.cpp:258-277: ptr_to_msgs, duel_flags and the check of the version
\* of the core.
LocateMsgs ==
    /\ pc = "msgs_ptr"
    /\ LET c == read_duel_flags(
                    yrpx_header.flags,
                    skip_duelists(yrpx_header.flags, Cursor(0), file.pre,
                                  PthLimits).c,
                    PthLimits)
       IN /\ ptr_to_msgs' = c.ptr
          /\ oob' = oob \cup c.oob
    /\ IF CoreVersionMajor(yrpx_header.version) < 10
       THEN Fail("Version of core used in this replay is too old")
       ELSE pc' = "analyze_call" /\ UNCHANGED <<exit, err>>
    /\ UNCHANGED <<an, lz, args, file, opts, out, yrpx_header, pth_size,
                   analysis, yrp_header, rs, ndebug, ctx>>


\* ------------------------------------------------- the duel state mirror
\* Number of places on the board and longest deferred list the encoder is
\* taken to use.
MaxPlaces == 2
MaxDeferred == 2

Places == 1 .. MaxPlaces
\* The piles pile_size is asked about.
Piles == {"deck", "hand"}
\* The match win reasons the encoder gives.
Reasons == {0, 1}

\* No call of the context was made yet, and one that returns nothing.
NoCall == [name |-> "none"]
Void == [void |-> TRUE]

\* No message is being parsed.
NoMsg == [phase |-> "none"]

\* parser.cpp:27-33, the constructor: an empty board and frame, no reason,
\* no entry in left_, nothing deferred.  `cards` and `materials` are the
\* places of the frame that hold a card and that hold materials, `pile` the
\* sizes of its piles; `last` and `ret` are history: the last call made and
\* what it returned.  `blocks` is the stream of replay_, `msg` the message
\* ReplayContext::parse works on.
NoContext ==
    [cards |-> {}, materials |-> {}, pile |-> [p \in Piles |-> 0],
     match_win_reason |-> 0, left |-> <<>>, deferred |-> <<>>,
     last |-> NoCall, ret |-> Void, blocks |-> <<>>, msg |-> NoMsg]

\* A call is recorded with what it returns.
Called(c, call, ret) == [c EXCEPT !.last = call, !.ret = ret]

\* parser.cpp:35-38, pile_size
pile_size(c, pile) ==
    Called(c, [name |-> "pile_size", pile |-> pile], c.pile[pile])

\* parser.cpp:40-43, get_match_win_reason
get_match_win_reason(c) ==
    Called(c, [name |-> "get_match_win_reason"], c.match_win_reason)

\* parser.cpp:45-48, has_xyz_mat
has_xyz_mat(c, p) ==
    Called(c, [name |-> "has_xyz_mat", place |-> p], p \in c.materials)

\* parser.cpp:50-53, get_xyz_left, for a place that left_ holds.
get_xyz_left(c, left) ==
    Called(c, [name |-> "get_xyz_left", place |-> left], c.left[left])

\* parser.cpp:55-58, match_win_reason
match_win_reason(c, reason) ==
    Called([c EXCEPT !.match_win_reason = reason],
           [name |-> "match_win_reason", reason |-> reason], Void)

\* Mutant: a deferred place is put before the ones deferred earlier.
xyz_mat_defer_Front(c, place) ==
    Called([c EXCEPT !.deferred = <<place>> \o @],
           [name |-> "xyz_mat_defer", place |-> place], Void)

\* parser.cpp:60-63, xyz_mat_defer
xyz_mat_defer(c, place) ==
    Called([c EXCEPT !.deferred = Append(@, place)],
           [name |-> "xyz_mat_defer", place |-> place], Void)

\* parser.cpp:65-70, take_deferred_xyz_mat
take_deferred_xyz_mat(c) ==
    Called([c EXCEPT !.deferred = <<>>],
           [name |-> "take_deferred_xyz_mat"], c.deferred)

\* parser.cpp:72-76, xyz_left
xyz_left(c, left, from) ==
    Called([c EXCEPT !.left = (left :> from) @@ @],
           [name |-> "xyz_left", place |-> left, from |-> from], Void)

\* The encoder calls one of the operations of the context that change it.
ContextUpdate ==
    /\ pc = "context"
    /\ \/ \E reason \in Reasons : ctx' = match_win_reason(ctx, reason)
       \/ \E p \in Places :
              /\ Len(ctx.deferred) < MaxDeferred
              /\ ctx' = xyz_mat_defer(ctx, p)
       \/ ctx' = take_deferred_xyz_mat(ctx)
       \/ \E left, from \in Places : ctx' = xyz_left(ctx, left, from)
    /\ UNCHANGED <<pc, an, lz, err, args, file, opts, out, exit, yrpx_header,
                   pth_size, analysis, yrp_header, ptr_to_msgs, rs, ndebug,
                   oob>>

\* The encoder calls one of the operations of the context that are const.
ContextQuery ==
    /\ pc = "context"
    /\ \/ \E pile \in Piles : ctx' = pile_size(ctx, pile)
       \/ ctx' = get_match_win_reason(ctx)
       \/ \E p \in Places : ctx' = has_xyz_mat(ctx, p)
       \/ \E p \in DOMAIN ctx.left : ctx' = get_xyz_left(ctx, p)
    /\ UNCHANGED <<pc, an, lz, err, args, file, opts, out, exit, yrpx_header,
                   pth_size, analysis, yrp_header, ptr_to_msgs, rs, ndebug,
                   oob>>

\* parser.cpp:50-53, get_xyz_left for a place that left_ does not hold:
\* find returns end() and the call dereferences it, which is undefined.  The
\* call returns whatever place the memory there holds, or the process dies.
ContextDangling ==
    /\ pc = "context"
    /\ \E p \in Places \ DOMAIN ctx.left :
        \/ /\ \E q \in Places :
                  ctx' = Called(ctx, [name |-> "get_xyz_left", place |-> p], q)
           /\ UNCHANGED <<pc, exit>>
        \/ /\ pc' = "crashed"
           /\ exit' = "crash"
           /\ ctx' = Called(ctx, [name |-> "get_xyz_left", place |-> p], Void)
    /\ UNCHANGED <<an, lz, err, args, file, opts, out, yrpx_header, pth_size,
                   analysis, yrp_header, ptr_to_msgs, rs, ndebug, oob>>

\* ------------------------------------------------------------ analyze
\* The encoder (YGOpen::Codec::Edo9300::OCGCore::encode_one) is a library
\* outside the repository: its result is any state with any byte count.  It
\* decodes the message type first, so it reads at least that byte.
EncodeStates == {"OK", "SWALLOWED", "UNKNOWN"}
EncoderBytesRead == 1 .. MaxRead
\* The message types read from a stream: an ordinary one and the sentinel.
MsgTypes == {1, OLD_REPLAY_FORMAT}
\* The uint32_t msg_size values read from a stream.
MsgSizes == (0 .. MaxMsgSize) \cup {TwoTo32 - 1}
\* What one iteration of analyze reads: the frame header in the stream and
\* the encoder's result for the frame.
FrameReads ==
    [msg_type : MsgTypes, msg_size : MsgSizes,
     state : EncodeStates, bytes_read : EncoderBytesRead]

\* Mutant: the check of the frame header reads sizeof(uint8_t) only.
TruncatedFrame_TypeOnly(sen, buf) == sen < buf + 1

\* Mutant: the check catches only a cursor that is past the end.
TruncatedFrame_PastEnd(sen, buf) == sen < buf

\* parser.cpp:210, sentry < buffer + sizeof(uint8_t) + sizeof(uint32_t)
TruncatedFrame(sen, buf) == sen < buf + 1 + 4

\* parser.cpp:223, buffer += sizeof(size): the cursor now points at the byte
\* that line 224 overwrites with msg_type.
AfterSwap(buf) == buf + 4

\* parser.cpp:230, orm_buffer = buffer + 1U
OrmBuffer(buf) == buf + 1

\* Mutant: the region size the specification states, msg_size - 1.
OrmSize_Minus1(msg_size) == msg_size - 1

\* parser.cpp:231, orm_size = msg_size
OrmSize(msg_size) == msg_size

\* Mutant: the length check forgets the message type byte.
LengthMatches_NoType(msg_size, bytes_read) == msg_size % TwoTo32 = bytes_read

\* parser.cpp:255, (msg_size + 1U) != r.bytes_read, in 32-bit unsigned
\* arithmetic.
LengthMatches(msg_size, bytes_read) == (msg_size + 1) % TwoTo32 = bytes_read

\* Mutant: the block is put at the head of the stream.
AddBlock_Front(bs, msg) == <<[time_offset_ms |-> 0, msg |-> msg]>> \o bs

\* parser.cpp:84-86, ReplayContext::parse appends one block per message.
AddBlock(bs, msg) == Append(bs, [time_offset_ms |-> 0, msg |-> msg])

\* parser.cpp:213/253/258, return {false, {}, {}, {}}
AnalyzeFailure == [success |-> FALSE, duel_messages |-> <<>>,
                   old_replay_mode_buffer |-> Null, old_replay_mode_size |-> 0]

\* parser.cpp:261, return {true, ctx.serialize(), orm_buffer, orm_size}
AnalyzeSuccess(bs, ob, os) ==
    [success |-> TRUE, duel_messages |-> bs,
     old_replay_mode_buffer |-> ob, old_replay_mode_size |-> os]

\* The locals of analyze on entry, parser.cpp:204-207, for a stream that
\* starts at offset `start` of its buffer and ends at offset `end`.
\* `returned`, `result` and `err` hold the return of the call; `frames` is
\* the history of the frames walked.
AnalyzeEntry(start, end) ==
    [buffer |-> start, sentry |-> end, orm_buffer |-> Null, orm_size |-> 0,
     blocks |-> <<>>, returned |-> FALSE, result |-> AnalyzeFailure,
     err |-> "", frames |-> <<>>]

\* analyze returns `res` with diagnostic `e`.
AnalyzeReturn(s, res, e) ==
    [s EXCEPT !.returned = TRUE, !.result = res, !.err = e]

\* One iteration of the do-while loop of analyze, parser.cpp:208-260, and the
\* return that follows when the loop is left, from locals `s` when the
\* iteration reads `fr`.
AnalyzeIter(s, fr) ==
    LET at == AfterSwap(s.buffer) IN
    IF TruncatedFrame(s.sentry, s.buffer) THEN
        AnalyzeReturn(s, AnalyzeFailure,
                      "Unexpectedly short size for next message")
    ELSE IF fr.msg_type = OLD_REPLAY_FORMAT THEN
        LET t == [s EXCEPT !.buffer = at,
                           !.orm_buffer = OrmBuffer(at),
                           !.orm_size = OrmSize(fr.msg_size),
                           !.frames = Append(@,
                               [fr EXCEPT !.state = "NONE", !.bytes_read = 0]
                               @@ [encoded |-> FALSE])]
        IN AnalyzeReturn(t, AnalyzeSuccess(t.blocks, t.orm_buffer, t.orm_size),
                         "")
    ELSE
        LET t == [s EXCEPT !.buffer = at + fr.bytes_read,
                           !.blocks = IF fr.state = "OK"
                                      THEN AddBlock(@, Len(s.frames) + 1)
                                      ELSE @,
                           !.frames = Append(@, fr @@ [encoded |-> TRUE])]
        IN
        IF fr.state = "UNKNOWN" THEN
            AnalyzeReturn(t, AnalyzeFailure,
                          "Encountered unknown core message number")
        ELSE IF ~LengthMatches(fr.msg_size, fr.bytes_read) THEN
            AnalyzeReturn(t, AnalyzeFailure,
                          "Read length for message is mismatched")
        ELSE IF t.sentry # t.buffer THEN t
        ELSE AnalyzeReturn(t, AnalyzeSuccess(t.blocks, t.orm_buffer,
                                             t.orm_size), "")

\* analyze takes one step: the next iteration of its loop.
AnalyzeStep ==
    /\ pc = "analyze"
    /\ UNCHANGED <<lz, mainVars>>
    /\ \E fr \in FrameReads :
        /\ an' = AnalyzeIter(an, fr)
        /\ pc' = IF an'.returned THEN "analyze_done" ELSE "analyze"
        /\ err' = an'.err

\* ---------------------------------------------- archiving a message
\* Most queries of a message.
MaxQueries == 2

\* parser.cpp:111-134, the fields of a query's data that have a cache hit
\* bit, in the order of the table.
ClearableFields ==
    <<"owner", "is_public", "is_hidden", "position", "cover", "status",
      "code", "alias", "type", "level", "xyz_rank", "attribute", "race",
      "base_atk", "atk", "base_def", "def", "pend_l_scale", "pend_r_scale",
      "link_rate", "link_arrow", "counters", "equipped", "relations">>

Fields == {ClearableFields[i] : i \in DOMAIN ClearableFields}

\* The data of a query: the value of each field, Null for a field that is
\* absent.  The queries take their data from these: every field present,
\* three fields present, none present.
QueryData ==
    {[f \in Fields |-> 1],
     [f \in Fields |->
         IF f = "owner" THEN 2
         ELSE IF f \in {"code", "relations"} THEN 1 ELSE Null],
     [f \in Fields |-> Null]}

\* The cache hits parse_query is taken to return: none, every field, one
\* field, the first and the last field of the table.
CacheHits == {{}, Fields, {"code"}, {"owner", "relations"}}

\* Mutant: the last line of the table is left out.
ClearHits_NoRelations(data, hits) ==
    [f \in Fields |->
        IF f \in hits /\ f # "relations" THEN Null ELSE data[f]]

\* parser.cpp:105-134, clear_##v() for every v whose bit is in hits
ClearHits(data, hits) ==
    [f \in Fields |-> IF f \in hits THEN Null ELSE data[f]]

\* The messages given to parse: an event or not, with up to MaxQueries
\* queries.
Queries == UNION {[1 .. n -> [place : Places, data : QueryData]] :
                      n \in 0 .. MaxQueries}

\* board_.frame().has_card(place)
has_card(c, place) == place \in c.cards

\* parser.cpp:80-92: the block is appended, parse_event moves the board to
\* the frame `cards` if the message is an event, and `it` is at the first
\* query.  `seen` is history: for each query met by the loop, its place, its
\* data as they came, whether it was erased, whether parse_query was called
\* on it and what it returned.
ParseEntry(c, event, cards, queries) ==
    [c EXCEPT !.blocks = AddBlock(@, Len(@) + 1),
              !.cards = IF event THEN cards ELSE @,
              !.msg = [phase |-> IF queries = <<>> THEN "done" ELSE "loop",
                       event |-> event, queries |-> queries, it |-> 1,
                       seen |-> <<>>]]

\* Sequence s without its i-th element.
Erase(s, i) == SubSeq(s, 1, i - 1) \o SubSeq(s, i + 1, Len(s))

\* parser.cpp:93-136, one iteration of the loop and the test that follows
\* it; `hits` is what parse_query returns if it is called.
ParseIter(c, hits) ==
    LET m == c.msg
        q == m.queries[m.it]
        erased == ~has_card(c, q.place)
        queries == IF erased
                   THEN Erase(m.queries, m.it)
                   ELSE [m.queries EXCEPT
                             ![m.it].data = ClearHits(@, hits)]
        it == IF erased THEN m.it ELSE m.it + 1
    IN  [c EXCEPT !.msg =
            [m EXCEPT !.queries = queries,
                      !.it = it,
                      !.seen = Append(@, [place |-> q.place,
                                          before |-> q.data,
                                          erased |-> erased,
                                          parsed |-> ~erased,
                                          hits |-> IF erased THEN {}
                                                   ELSE hits]),
                      !.phase = IF it > Len(queries) THEN "done"
                                ELSE "loop"]]

\* parse is called with a message.
ParseBegin ==
    /\ pc = "parse"
    /\ ctx.msg.phase = "none"
    /\ \E event \in BOOLEAN, cards \in SUBSET Places, queries \in Queries :
        ctx' = ParseEntry(ctx, event, cards, queries)
    /\ UNCHANGED <<pc, an, lz, err, args, file, opts, out, exit, yrpx_header,
                   pth_size, analysis, yrp_header, ptr_to_msgs, rs, ndebug,
                   oob>>

\* The loop of parse handles the query at `it`.
ParseQuery ==
    /\ pc = "parse"
    /\ ctx.msg.phase = "loop"
    /\ \E hits \in CacheHits : ctx' = ParseIter(ctx, hits)
    /\ UNCHANGED <<pc, an, lz, err, args, file, opts, out, exit, yrpx_header,
                   pth_size, analysis, yrp_header, ptr_to_msgs, rs, ndebug,
                   oob>>

\* ------------------------------------------------------------- main
\* Largest number of ordinary frames before the last frame of a stream that
\* main hands to analyze.
MaxOkFrames == 1
\* Largest size byte and largest number of frames read by the loop that
\* reads the responses.
MaxRespSize == 2
MaxResps == 3

\* std::optional<AnalyzeResult> analysis, empty.  alloc is history: the size
\* of the allocation old_replay_mode_buffer points into.
NoAnalysis == AnalyzeFailure @@ [alloc |-> 0]

\* An ordinary frame of the least size, which the encoder accepts.
OkFrame == [msg_type |-> 1, msg_size |-> 0, state |-> "OK", bytes_read |-> 1]

\* The msg_size values a sentinel frame carries when its region starts at
\* offset `start` of pth_buf: the rest of the payload, the rest of pth_buf,
\* one more, the size of an extended header and one less.
SentinelSizes(start) ==
    {n \in {PayloadEnd - start, pth_size - start, pth_size - start + 1,
            SizeofExtendedReplayHeader, SizeofExtendedReplayHeader - 1} :
        n >= 0}

\* The frames a stream read by main ends with, when the last frame is at
\* offset `at` of pth_buf.
LastFrames(at) ==
    {[msg_type |-> 1, msg_size |-> 1, state |-> "SWALLOWED", bytes_read |-> 2],
     [msg_type |-> 1, msg_size |-> 0, state |-> "UNKNOWN", bytes_read |-> 1],
     [msg_type |-> 1, msg_size |-> 0, state |-> "OK", bytes_read |-> 2]}
    \cup {[msg_type |-> OLD_REPLAY_FORMAT, msg_size |-> n, state |-> "OK",
           bytes_read |-> 1] : n \in SentinelSizes(at + 1 + 4)}

\* What analyze reads from a stream that starts at offset `start`.
Tapes(start) ==
    UNION {{[i \in 1 .. k |-> OkFrame]}
           \cup {[i \in 1 .. k + 1 |->
                     IF i <= k THEN OkFrame ELSE f] :
                 f \in LastFrames(start + k * (4 + 1))}
           : k \in 0 .. MaxOkFrames}

RECURSIVE AnalyzeRun(_, _, _)
\* parser.cpp:208-261: the loop of analyze from its i-th iteration on.
AnalyzeRun(s, tape, i) ==
    IF s.returned \/ i > Len(tape) THEN s
    ELSE AnalyzeRun(AnalyzeIter(s, tape[i]), tape, i + 1)

\* main.cpp:278-284: the call of analyze (needs_analysis holds whenever this
\* line is reached, main.cpp:255-257).
CallAnalyze ==
    /\ pc = "analyze_call"
    /\ \E tape \in Tapes(ptr_to_msgs) :
        LET s == AnalyzeRun(AnalyzeEntry(ptr_to_msgs, pth_size), tape, 1) IN
        /\ s.returned
        /\ an' = s
        /\ analysis' = s.result @@ [alloc |-> pth_size]
        /\ IF ~s.result.success THEN Fail(s.err)
           ELSE pc' = "inner_header" /\ UNCHANGED <<exit, err>>
    /\ UNCHANGED <<lz, args, file, opts, out, yrpx_header, pth_size,
                   yrp_header, ptr_to_msgs, rs, ndebug, oob, ctx>>

\* main.cpp:287-309: the inner header.
ReadInnerHeader ==
    /\ pc = "inner_header"
    /\ IF ~NeedsYrp THEN
           /\ pc' = "decks"
           /\ UNCHANGED <<exit, err, yrp_header, analysis, oob>>
       ELSE IF analysis.old_replay_mode_buffer = Null THEN
           /\ Fail("Replay doesn't have OLD_REPLAY_MODE")
           /\ UNCHANGED <<yrp_header, analysis, oob>>
       ELSE IF TooSmall(analysis.old_replay_mode_size) THEN
           /\ Fail("Yrp buffer too small")
           /\ UNCHANGED <<yrp_header, analysis, oob>>
       ELSE
           LET r == read_header(file.inner.header, REPLAY_YRP1)
               hs == HeaderSize(r.header.flags)
           IN
           /\ oob' = oob \cup Outside(analysis.old_replay_mode_buffer + hs,
                                      PthLimits)
           /\ IF ~r.success
              THEN Fail(r.err) /\ UNCHANGED <<yrp_header, analysis>>
              ELSE /\ yrp_header' = r.header
                   /\ analysis' =
                          [analysis EXCEPT !.old_replay_mode_buffer = @ + hs,
                                           !.old_replay_mode_size = @ - hs]
                   /\ pc' = "inner_contents"
                   /\ UNCHANGED <<exit, err>>
    /\ UNCHANGED <<an, lz, args, file, opts, out, yrpx_header, pth_size,
                   ptr_to_msgs, rs, ndebug, ctx>>

\* main.cpp:318, analysis->old_replay_mode_size != header.base.size
YrpSizeMismatch(size, header) == size # header.size

\* main.cpp:310-322: the inner contents.  The vector decompress returns is
\* used whether it is empty or not.
ReadInnerContents ==
    /\ pc = "inner_contents"
    /\ IF HasFlag(yrp_header.flags, REPLAY_COMPRESSED) THEN
           \E sc \in DecoderScripts(
                         DecompressEntry(yrp_header.size, yrp_header.flags,
                                         analysis.old_replay_mode_size,
                                         yrp_header.size)) :
               LET d == decompress(yrp_header.size, yrp_header.flags,
                                   analysis.old_replay_mode_size,
                                   CallMaxSize(yrp_header.size), sc)
               IN /\ lz' = d
                  /\ err' = d.err
                  /\ analysis' =
                         [analysis EXCEPT !.old_replay_mode_buffer = 0,
                                          !.old_replay_mode_size = d.ret,
                                          !.alloc = d.ret]
                  /\ pc' = "decks"
                  /\ UNCHANGED exit
       ELSE
           /\ UNCHANGED <<lz, analysis>>
           /\ IF YrpSizeMismatch(analysis.old_replay_mode_size, yrp_header)
              THEN Fail("Yrp buffer size doesn't match header")
              ELSE pc' = "decks" /\ UNCHANGED <<exit, err>>
    /\ UNCHANGED <<an, args, file, opts, out, yrpx_header, pth_size,
                   yrp_header, ptr_to_msgs, rs, ndebug, oob, ctx>>

\* The limits of the inner payload.
YrpLimits ==
    Limits(analysis.old_replay_mode_buffer + analysis.old_replay_mode_size,
           analysis.alloc)

\* The i-th length field of the decks; file.inner.lens lists the leading
\* ones, the ones after them are 0.
LenAt(lens, i) == IF i <= Len(lens) THEN lens[i] ELSE 0

\* main.cpp:331-336, read_code_vector: the size and that many codes.
read_code_vector(c, size, lim) == Read(Read(c, 4, lim), 4 * size, lim)

RECURSIVE ReadDecks(_, _, _, _, _)
\* main.cpp:340-346: the code vectors from the i-th to the n-th.
ReadDecks(c, lens, i, n, lim) ==
    IF i > n THEN c
    ELSE ReadDecks(read_code_vector(c, LenAt(lens, i), lim), lens, i + 1, n,
                   lim)

\* main.cpp:324-362: the decks.
EmitDecks ==
    /\ pc = "decks"
    /\ pc' = "seed"
    /\ out' = Emit(out, "decks")
    /\ oob' = IF "decks" \in opts
              THEN LET r == read_until_decks(
                                yrp_header.flags,
                                Cursor(analysis.old_replay_mode_buffer),
                                file.inner.pre, YrpLimits)
                   IN oob \cup ReadDecks(r.c, file.inner.lens, 1,
                                         2 * r.num + 1, YrpLimits).oob
              ELSE oob
    /\ UNCHANGED <<an, lz, err, args, file, opts, exit, yrpx_header, pth_size,
                   analysis, yrp_header, ptr_to_msgs, rs, ndebug, ctx>>

\* main.cpp:363-373: the duel seed, from yrp_header.
EmitSeed ==
    /\ pc = "seed"
    /\ pc' = "options"
    /\ out' = Emit(out, "duel_seed")
    /\ UNCHANGED <<an, lz, err, args, file, opts, exit, yrpx_header, pth_size,
                   analysis, yrp_header, ptr_to_msgs, rs, ndebug, oob, ctx>>

\* main.cpp:374-385: the duel options.
EmitOptions ==
    /\ pc = "options"
    /\ pc' = "msgs"
    /\ out' = Emit(out, "duel_options")
    /\ oob' = IF "duel_options" \in opts
              THEN LET r == skip_duelists(
                                yrp_header.flags,
                                Cursor(analysis.old_replay_mode_buffer),
                                file.inner.pre, YrpLimits)
                   IN oob \cup Read(Read(Read(r.c, 4, YrpLimits), 4,
                                         YrpLimits), 4, YrpLimits).oob
              ELSE oob
    /\ UNCHANGED <<an, lz, err, args, file, opts, exit, yrpx_header, pth_size,
                   analysis, yrp_header, ptr_to_msgs, rs, ndebug, ctx>>

\* main.cpp:386-390: the duel messages.
EmitMsgs ==
    /\ pc = "msgs"
    /\ pc' = "resps"
    /\ out' = Emit(out, "duel_msgs")
    /\ UNCHANGED <<an, lz, err, args, file, opts, exit, yrpx_header, pth_size,
                   analysis, yrp_header, ptr_to_msgs, rs, ndebug, oob, ctx>>


\* ------------------------------------------------------ the responses
\* The locals of the loop at main.cpp:408-417 on entry.  phase, outside and
\* oob are history: outside counts, for each response, the bytes copied into
\* it from outside the inner payload.
RespsEntry(ptr, sentry) ==
    [ptr |-> ptr, sentry |-> sentry, resps |-> <<>>, phase |-> "loop",
     oob |-> {}]

NoResps == [RespsEntry(0, 0) EXCEPT !.phase = "none"]

\* The bytes of a memcpy of `size` bytes at `ptr` that lie at or after
\* `sentry`.
BytesOutside(ptr, size, sentry) ==
    IF ptr + size <= sentry THEN 0
    ELSE IF ptr >= sentry THEN size
    ELSE ptr + size - sentry

\* main.cpp:408, sentry != ptr_to_resps fails
AtSentry(r) == r.sentry = r.ptr

\* main.cpp:408-417: one iteration of the loop, which reads the size byte
\* `size`, in a build with NDEBUG (nd) or without.  Without NDEBUG a failed
\* assert aborts the process.  With NDEBUG a cursor past the sentry never
\* equals it again: the loop reads on until the process is killed, which is
\* taken here at once.
RespsIter(r, size, nd, lim) ==
    IF AtSentry(r) THEN [r EXCEPT !.phase = "print"]
    ELSE IF ~(r.ptr < r.sentry) THEN
        [r EXCEPT !.phase = IF nd THEN "crash" ELSE "abort"]
    ELSE
        LET c1 == Read(Cursor(r.ptr), 1, lim) IN
        IF ~nd /\ size = 0 THEN
            [r EXCEPT !.ptr = c1.ptr, !.oob = @ \cup c1.oob,
                      !.phase = "abort"]
        ELSE
            LET c2 == Read(c1, size, lim) IN
            [r EXCEPT !.ptr = c2.ptr,
                      !.oob = @ \cup c2.oob,
                      !.resps = Append(@,
                          [size |-> size,
                           outside |-> BytesOutside(c1.ptr, size, r.sentry)])]

RespSizes == 0 .. MaxRespSize

RECURSIVE RespsRun(_, _, _, _)
\* main.cpp:408-417: the ends the loop can come to from locals r when it
\* reads up to n more size bytes, each any of RespSizes.
RespsRun(r, n, nd, lim) ==
    IF r.phase # "loop" THEN {r}
    ELSE IF ~(r.ptr < r.sentry) THEN RespsRun(RespsIter(r, 0, nd, lim), n, nd,
                                              lim)
    ELSE IF n = 0 THEN {}
    ELSE UNION {RespsRun(RespsIter(r, size, nd, lim), n - 1, nd, lim) :
                   size \in RespSizes}

\* main.cpp:399-402, ptr += read<uint32_t>(ptr) * sizeof(uint32_t): a
\* product of size_t.
skip_code_vector(c, size, lim) == Skip(Read(c, 4, lim), size * 4)

RECURSIVE SkipDecks(_, _, _, _, _)
\* main.cpp:397-402: the code vectors from the i-th to the n-th.
SkipDecks(c, lens, i, n, lim) ==
    IF i > n THEN c
    ELSE SkipDecks(skip_code_vector(c, LenAt(lens, i), lim), lens, i + 1, n,
                   lim)

\* main.cpp:391-435: the responses and the return of main.
EmitResps ==
    /\ pc = "resps"
    /\ pc' = "exit"
    /\ IF "duel_resps" \notin opts THEN
           /\ exit' = "success"
           /\ UNCHANGED <<out, rs, oob>>
       ELSE
           LET u == read_until_decks(yrp_header.flags,
                                     Cursor(analysis.old_replay_mode_buffer),
                                     file.inner.pre, YrpLimits)
               c == SkipDecks(u.c, file.inner.lens, 1, 2 * u.num + 1,
                              YrpLimits)
           IN
           \E r \in RespsRun(RespsEntry(c.ptr, YrpLimits.payload), MaxResps,
                           ndebug, YrpLimits) :
               /\ rs' = r
               /\ oob' = oob \cup c.oob \cup r.oob
               /\ IF r.phase = "print"
                  THEN out' = Append(out, "duel_resps") /\ exit' = "success"
                  ELSE out' = out /\ exit' = r.phase
    /\ UNCHANGED <<an, lz, err, args, file, opts, yrpx_header, pth_size,
                   analysis, yrp_header, ptr_to_msgs, ndebug, ctx>>

\* A read outside an allocation is undefined: the process may go on with
\* whatever it read, or be killed.
Crash ==
    /\ pc # "exit"
    /\ exit = "running"
    /\ "buffer" \in oob
    /\ exit' = "crash"
    /\ pc' = "exit"
    /\ UNCHANGED <<an, lz, err, args, file, opts, out, yrpx_header, pth_size,
                   analysis, yrp_header, ptr_to_msgs, rs, ndebug, oob, ctx>>

\* The loop that reads the responses takes one step.
RespsStep ==
    /\ pc = "resps_loop"
    /\ \E size \in RespSizes :
        rs' = RespsIter(rs, size, ndebug, Limits(rs.sentry, rs.sentry))
    /\ pc' = IF rs'.phase = "loop" THEN pc ELSE "resps_done"
    /\ UNCHANGED <<an, lz, err, args, file, opts, out, exit, yrpx_header,
                   pth_size, analysis, yrp_header, ptr_to_msgs, ndebug, oob,
                   ctx>>


\* ------------------------------------------------------ specifications
\* The version of a replay written with major version `major` of the core.
CoreVersion(major) == major * 65536

Header(type, version, flags, size, header_version) ==
    [type |-> type, version |-> version, flags |-> flags, size |-> size,
     header_version |-> header_version]

Teams(t1, t2) == [t1 |-> t1, t2 |-> t2]

\* The inner replay: its header, its team counts and its deck lengths.
Inner(header, pre, lens) == [header |-> header, pre |-> pre, lens |-> lens]

\* The replay file: whether it opens, its size, its header, the team counts
\* of its payload and the inner replay its payload holds.
File(opens, size, header, pre, inner) ==
    [opens |-> opens, size |-> size, header |-> header, pre |-> pre,
     inner |-> inner]

\* An inner replay of one duelist with a main deck of one card and two bytes
\* of responses: a preamble of 4 + 40 + 4 + 12 + 4 bytes, decks of
\* 4 + 4 + 4 + 4 bytes.
InnerSize == (4 + 40 + 4 + 12 + 4) + (4 + 4 + 4 + 4) + 2
PlainInner(type, flags, size, header_version) ==
    Inner(Header(type, CoreVersion(10), flags, size, header_version),
          Teams(1, 0), <<1>>)
GoodInner == PlainInner(REPLAY_YRP1, 0, InnerSize, 0)

\* The size of an uncompressed file of one duelist whose stream is the
\* sentinel frame alone, around GoodInner: header, preamble of
\* 4 + 40 + 4 + 4 bytes, frame header, inner header, inner payload.
GoodSize ==
    SizeofReplayHeader + (4 + 40 + 4 + 4) + (1 + 4) + SizeofReplayHeader
    + InnerSize

\* Every program variable of main before main runs.
MainIdle ==
    /\ args = <<>>
    /\ file = File(TRUE, 0, NoHeader, Teams(0, 0),
                   Inner(NoHeader, Teams(0, 0), <<>>))
    /\ opts = {}
    /\ out = <<>>
    /\ exit = "running"
    /\ yrpx_header = NoHeader
    /\ pth_size = 0
    /\ analysis = NoAnalysis
    /\ yrp_header = NoHeader
    /\ ptr_to_msgs = 0
    /\ rs = NoResps
    /\ oob = {}
    /\ ctx = NoContext

\* main before it runs on the command line argv and the file f.
MainEntry(argv, f) ==
    /\ pc = "start"
    /\ err = ""
    /\ an = AnalyzeEntry(0, 0)
    /\ lz = NoDecompress
    /\ args = argv
    /\ file = f
    /\ opts = {}
    /\ out = <<>>
    /\ exit = "running"
    /\ yrpx_header = NoHeader
    /\ pth_size = 0
    /\ analysis = NoAnalysis
    /\ yrp_header = NoHeader
    /\ ptr_to_msgs = 0
    /\ rs = NoResps
    /\ oob = {}
    /\ ctx = NoContext

\* Largest number of options on the command line.
MaxArgs == 2

\* The command lines: up to MaxArgs words, each an option or another word.
CommandLines == UNION {[1 .. n -> Options \cup {"--bogus"}] : n \in 0 .. MaxArgs}

\* Files of the good size that differ from the good file in one respect.
GoodFileWith(header, pre, inner) == File(TRUE, GoodSize, header, pre, inner)

\* The size of an uncompressed file of one duelist that ends with the header
\* of the sentinel frame.
ShortSize == SizeofReplayHeader + (4 + 40 + 4 + 4) + (1 + 4)
\* What follows the payload of such a file in pth_buf: the bytes the vector
\* was created with (main.cpp:94), which read_replay_contents leaves alone.
ZeroInner == Inner(Header(0, 0, 0, 0, 0), Teams(0, 0), <<>>)
GoodHeader == Header(REPLAY_YRPX, CoreVersion(10), 0, GoodSize, 0)

ReplayFiles ==
    {GoodFileWith(GoodHeader, Teams(1, 0), GoodInner),
     \* not a file that opens; too small; wrong magic; hand test; too new
     File(FALSE, GoodSize, GoodHeader, Teams(1, 0), GoodInner),
     File(TRUE, SizeofExtendedReplayHeader - 1, GoodHeader, Teams(1, 0),
          GoodInner),
     GoodFileWith([GoodHeader EXCEPT !.type = REPLAY_YRP1], Teams(1, 0),
                  GoodInner),
     GoodFileWith([GoodHeader EXCEPT !.flags = REPLAY_HAND_TEST], Teams(1, 0),
                  GoodInner),
     GoodFileWith([GoodHeader EXCEPT !.flags = REPLAY_EXTENDED_HEADER,
                                     !.header_version = 2], Teams(1, 0),
                  GoodInner),
     \* header.size is the size of the payload; an old core
     GoodFileWith([GoodHeader EXCEPT !.size = GoodSize - SizeofReplayHeader],
                  Teams(1, 0), GoodInner),
     GoodFileWith([GoodHeader EXCEPT !.version = CoreVersion(9)], Teams(1, 0),
                  GoodInner),
     \* compressed, to the good payload and to a stream of one frame
     GoodFileWith([GoodHeader EXCEPT !.flags = REPLAY_COMPRESSED,
                                     !.size = GoodSize - SizeofReplayHeader],
                  Teams(1, 0), GoodInner),
     GoodFileWith([GoodHeader EXCEPT !.flags = REPLAY_COMPRESSED,
                                     !.size = (4 + 4 + 4) + (4 + 1)],
                  Teams(0, 0), GoodInner),
     \* team counts that are not those of the payload
     GoodFileWith(GoodHeader, Teams(TwoTo32 - 1, 1), GoodInner),
     GoodFileWith(GoodHeader, Teams(3, 3), GoodInner),
     \* inner replays: wrong magic, too new, compressed, another size,
     \* other team counts and deck lengths
     GoodFileWith(GoodHeader, Teams(1, 0),
                  PlainInner(REPLAY_YRPX, 0, InnerSize, 0)),
     GoodFileWith(GoodHeader, Teams(1, 0),
                  PlainInner(REPLAY_YRP1, REPLAY_EXTENDED_HEADER,
                             InnerSize, 2)),
     GoodFileWith(GoodHeader, Teams(1, 0),
                  PlainInner(REPLAY_YRP1, REPLAY_COMPRESSED, InnerSize, 0)),
     GoodFileWith(GoodHeader, Teams(1, 0),
                  PlainInner(REPLAY_YRP1, 0, InnerSize + 1, 0)),
     GoodFileWith(GoodHeader, Teams(1, 0),
                  Inner(GoodInner.header, Teams(1, 1), <<1>>)),
     GoodFileWith(GoodHeader, Teams(1, 0),
                  Inner(GoodInner.header, Teams(1, 0), <<TwoTo32 - 1>>)),
     \* a file that ends with the header of the sentinel frame
     File(TRUE, ShortSize, [GoodHeader EXCEPT !.size = ShortSize],
          Teams(1, 0), ZeroInner)}

\* main on every command line of up to MaxArgs options, on the files of
\* ReplayFiles, in both builds.
Init ==
    /\ ndebug \in BOOLEAN
    /\ \E argv \in CommandLines, f \in ReplayFiles : MainEntry(argv, f)

Next ==
    \/ ParseOptions
    \/ CheckFileSize
    \/ ReadOuterHeader
    \/ ReadReplayContents
    \/ EmitNamesDate
    \/ LocateMsgs
    \/ CallAnalyze
    \/ ReadInnerHeader
    \/ ReadInnerContents
    \/ EmitDecks
    \/ EmitSeed
    \/ EmitOptions
    \/ EmitMsgs
    \/ EmitResps
    \/ Crash

Spec == Init /\ [][Next]_vars

\* A command line that asks for a section of the outer replay and for one of
\* the inner replay.
NamesAndDecks == <<"--names", "--decks">>

\* The sizes of files and the flags, sizes and versions of headers around
\* the limits read_header and its callers check.
FileSizes ==
    {SizeofReplayHeader - 1, SizeofReplayHeader, SizeofReplayHeader + 12,
     SizeofExtendedReplayHeader - 1, SizeofExtendedReplayHeader, GoodSize}
HeaderFlags ==
    {0, REPLAY_COMPRESSED, REPLAY_EXTENDED_HEADER,
     REPLAY_COMPRESSED + REPLAY_EXTENDED_HEADER, REPLAY_HAND_TEST,
     REPLAY_SINGLE_MODE, REPLAY_64BIT_DUELFLAG}
HeaderSizes(n) ==
    {m \in {n, n - SizeofReplayHeader, n - SizeofExtendedReplayHeader} :
        m >= 0}
HeaderVersions == {0, latest_header_version, latest_header_version + 1}
Magics == {REPLAY_YRPX, REPLAY_YRP1}

InnerHeaders ==
    {Header(type, CoreVersion(10), flags, size, hv) :
        type \in Magics,
        flags \in {0, REPLAY_COMPRESSED, REPLAY_EXTENDED_HEADER},
        size \in {InnerSize, InnerSize + SizeofReplayHeader},
        hv \in {latest_header_version, latest_header_version + 1}}

HeaderFiles ==
    UNION {{File(TRUE, n, Header(type, CoreVersion(10), flags, size, hv),
                 Teams(1, 0), Inner(ih, Teams(1, 0), <<1>>)) :
               type \in Magics, flags \in HeaderFlags,
               size \in HeaderSizes(n), hv \in HeaderVersions,
               ih \in InnerHeaders}
           : n \in FileSizes}

\* main asked for the names and the decks of the files of HeaderFiles, in
\* both builds.
InitFile ==
    /\ ndebug \in BOOLEAN
    /\ \E f \in HeaderFiles : MainEntry(NamesAndDecks, f)

SpecFile == InitFile /\ [][Next]_vars

\* Largest inner payload from which the loop that reads the responses is
\* started on its own.
MaxTail == 4

\* The loop that reads the responses on its own, in both builds, on every
\* inner payload of up to MaxTail bytes after the decks.
InitResps ==
    /\ pc = "resps_loop"
    /\ err = ""
    /\ an = AnalyzeEntry(0, 0)
    /\ lz = NoDecompress
    /\ ndebug \in BOOLEAN
    /\ args = <<>>
    /\ file = File(TRUE, 0, NoHeader, Teams(0, 0),
                   Inner(NoHeader, Teams(0, 0), <<>>))
    /\ opts = {"duel_resps"}
    /\ out = <<>>
    /\ exit = "running"
    /\ yrpx_header = NoHeader
    /\ pth_size = 0
    /\ analysis = NoAnalysis
    /\ yrp_header = NoHeader
    /\ ptr_to_msgs = 0
    /\ oob = {}
    /\ ctx = NoContext
    /\ \E sentry \in 0 .. MaxTail : rs = RespsEntry(0, sentry)

NextResps == RespsStep

SpecResps == InitResps /\ [][NextResps]_vars

\* The main program and analyze at rest, the context at `at` and in state c.
ContextAlone(at, c) ==
    /\ pc = at
    /\ err = ""
    /\ an = AnalyzeEntry(0, 0)
    /\ lz = NoDecompress
    /\ ndebug = FALSE
    /\ args = <<>>
    /\ file = File(TRUE, 0, NoHeader, Teams(0, 0),
                   Inner(NoHeader, Teams(0, 0), <<>>))
    /\ opts = {}
    /\ out = <<>>
    /\ exit = "running"
    /\ yrpx_header = NoHeader
    /\ pth_size = 0
    /\ analysis = NoAnalysis
    /\ yrp_header = NoHeader
    /\ ptr_to_msgs = 0
    /\ rs = NoResps
    /\ oob = {}
    /\ ctx = c

\* The context on its own, called by the encoder in any order, on a board
\* with a card in the deck and with or without materials at the first place.
InitContext ==
    \E materials \in {{}, {1}} :
        ContextAlone("context",
                     [NoContext EXCEPT !.materials = materials,
                                       !.pile.deck = 1,
                                       !.cards = materials])

NextContext == ContextUpdate \/ ContextQuery \/ ContextDangling

SpecContext == InitContext /\ [][NextContext]_vars

\* parse on its own, on one message of up to MaxQueries queries, starting
\* from any frame.
InitParse ==
    \E cards \in SUBSET Places :
        ContextAlone("parse", [NoContext EXCEPT !.cards = cards])

NextParse == ParseBegin \/ ParseQuery

SpecParse == InitParse /\ [][NextParse]_vars

\* analyze on its own, on every stream of up to MaxStream bytes.
InitAnalyze ==
    /\ pc = "analyze"
    /\ err = ""
    /\ lz = NoDecompress
    /\ MainIdle
    /\ ndebug = FALSE
    /\ \E size \in 0 .. MaxStream : an = AnalyzeEntry(0, size)

NextAnalyze == AnalyzeStep

SpecAnalyze == InitAnalyze /\ [][NextAnalyze]_vars

\* analyze is sequential code: while the call has not returned, the next
\* iteration of its loop is taken.
SpecAnalyzeLive == SpecAnalyze /\ WF_vars(AnalyzeStep)

\* decompress on its own, called as main calls it.
InitDecompress ==
    /\ pc = "decompress"
    /\ err = ""
    /\ an = AnalyzeEntry(0, 0)
    /\ MainIdle
    /\ ndebug = FALSE
    /\ \E size \in 0 .. MaxOut, input \in InputLengths :
        lz = DecompressEntry(size, REPLAY_COMPRESSED, input, CallMaxSize(size))

NextDecompress == DecompressBegin \/ DecompressLoop

SpecDecompress == InitDecompress /\ [][NextDecompress]_vars

\* ---------------------------------------------------- properties of main
\* The command line passed the checks of main.cpp:163-224.
ArgsAccepted ==
    Len(args) > 0 /\ file.opens /\ ParseOptionsFrom(args, 1, {}).ok

\* What a header parse decides on `n` bytes that hold header h, when `magic`
\* is expected, if it requires `least` bytes of every input and `extended`
\* bytes of one with the EXTENDED_HEADER flag.
Verdict(least, extended, n, h, magic) ==
    IF n < least THEN "TooSmall"
    ELSE IF h.type # magic THEN "WrongMagic"
    ELSE IF HasFlag(h.flags, REPLAY_EXTENDED_HEADER) /\ n < extended
    THEN "TooSmall"
    ELSE IF HasFlag(h.flags, REPLAY_EXTENDED_HEADER) /\ h.header_version > 1
    THEN "VersionTooNew"
    ELSE "Accepted"

\* The bytes a header with flags `flags` takes, of `base` bytes without the
\* EXTENDED_HEADER flag and `extended` bytes with it.
Consumed(flags, base, extended) ==
    IF HasFlag(flags, REPLAY_EXTENDED_HEADER) THEN extended ELSE base

\* main has decided on the outer header, and what it decided.
OuterDecided ==
    ArgsAccepted /\ pc \notin {"start", "filesize", "outer_header"}
OuterOutcome ==
    IF exit = "failure" /\ err = "File too small" THEN "TooSmall"
    ELSE IF exit = "failure" /\ ~analysis.success
            /\ err = "Not a yrp or yrpX file" THEN "WrongMagic"
    ELSE IF exit = "failure" /\ ~analysis.success
            /\ err = "Replay version is too new" THEN "VersionTooNew"
    ELSE "Accepted"

\* main has decided on the inner header, and what it decided.
InnerDecided ==
    /\ an.returned /\ an.result.success
    /\ an.result.old_replay_mode_buffer # Null
    /\ NeedsYrp
    /\ pc # "inner_header"
    /\ exit # "crash"
InnerOutcome ==
    IF exit = "failure" /\ err = "Yrp buffer too small" THEN "TooSmall"
    ELSE IF exit = "failure" /\ err = "Not a yrp or yrpX file"
    THEN "WrongMagic"
    ELSE IF exit = "failure" /\ err = "Replay version is too new"
    THEN "VersionTooNew"
    ELSE "Accepted"

\* C4 (as stated): no read of the byte cursor goes outside the payload it
\* reads, whatever the length fields of the payload are.
C4_Original == oob = {}

\* C5 (as stated): an outer replay without the COMPRESSED flag is accepted
\* only when the bytes that follow its header are header.size bytes, and
\* rejected with "File size doesn't match header" only when they are not.
C5_Original ==
    (ArgsAccepted /\ ~HasFlag(file.header.flags, REPLAY_COMPRESSED))
    => LET payload == file.size - HeaderSize(file.header.flags) IN
       /\ pc \in {"names", "msgs_ptr", "analyze_call"}
              => payload = file.header.size
       /\ (exit = "failure" /\ err = "File size doesn't match header")
              => payload # file.header.size

\* C6 (as stated): the outer and the inner header are rejected as too small
\* below 44 bytes, and below 76 bytes only with the EXTENDED_HEADER flag.
C6_Original ==
    /\ OuterDecided
           => OuterOutcome
                  = Verdict(44, 76, file.size, file.header, REPLAY_YRPX)
    /\ InnerDecided
           => InnerOutcome
                  = Verdict(44, 76, an.result.old_replay_mode_size,
                            file.inner.header, REPLAY_YRP1)

\* C6 (amended): for the outer and the inner header alike main decides in
\* this order: too small when fewer than 72 bytes are available, with or
\* without the EXTENDED_HEADER flag; else wrong magic; else, with the
\* EXTENDED_HEADER flag, version too new when header_version > 1; otherwise
\* the header is accepted and 32 bytes (72 with the flag) are consumed.
C6_HeaderOrder ==
    /\ OuterDecided
           => /\ OuterOutcome
                     = Verdict(72, 72, file.size, file.header, REPLAY_YRPX)
              /\ (OuterOutcome = "Accepted"
                  /\ ~HasFlag(yrpx_header.flags, REPLAY_COMPRESSED)
                  /\ pc \in {"names", "msgs_ptr", "analyze_call"})
                     => PayloadEnd
                            = file.size - Consumed(file.header.flags, 32, 72)
    /\ InnerDecided
           => /\ InnerOutcome
                     = Verdict(72, 72, an.result.old_replay_mode_size,
                               file.inner.header, REPLAY_YRP1)
              /\ (InnerOutcome = "Accepted" /\ pc = "inner_contents")
                     => /\ analysis.old_replay_mode_buffer
                               = an.result.old_replay_mode_buffer
                                 + Consumed(file.inner.header.flags, 32, 72)
                        /\ analysis.old_replay_mode_size
                               = an.result.old_replay_mode_size
                                 - Consumed(file.inner.header.flags, 32, 72)

\* A file of 44 bytes with the right magic and no EXTENDED_HEADER flag is
\* rejected as too small.
C6_Witness ==
    /\ file.size = 44
    /\ file.header.type = REPLAY_YRPX
    /\ ~HasFlag(file.header.flags, REPLAY_EXTENDED_HEADER)
    /\ exit = "failure"
    /\ err = "File too small"

\* C7 (as stated): a run that ends in failure has emitted no section.
C7_Original == exit = "failure" => out = <<>>

\* C7 (amended): a run that main ends in failure has emitted none of the
\* decks, the duel seed, the duel options, the duel messages and the
\* responses, whatever options were requested; the names and the date may
\* have been emitted before the failure.
C7_NoLateOutput ==
    exit = "failure"
    => \A i \in 1 .. Len(out) : out[i] \in {"names", "date"}

\* The inner replay is rejected after the names were emitted.
C7_Witness ==
    /\ exit = "failure"
    /\ analysis.success
    /\ out = <<"names">>

\* The sections in the order of emission.
SectionOrder ==
    <<"names", "date", "decks", "duel_seed", "duel_options", "duel_msgs",
      "duel_resps">>

\* The sections the command line asks for.
Requested == {OptionFlag[args[i]] : i \in 1 .. Len(args)}

IsRequested(section) == section \in Requested

\* C8: a run that ends in success has emitted exactly the requested
\* sections, each once, in the order names, date, decks, duel seed, duel
\* options, duel msgs, duel responses, whatever the order and the repetition
\* of the options on the command line.
C8_FixedOrder ==
    exit = "success" => out = SelectSeq(SectionOrder, IsRequested)

\* The options are given in the reverse of the order of emission.
C8_Witness ==
    /\ exit = "success"
    /\ args = <<"--duel-resps", "--names">>
    /\ out = <<"names", "duel_resps">>

\* The inner replay is compressed and its decompression failed: lz holds
\* the call of main.cpp:312-314 once yrp_header is set and the call was made.
InnerDecompressFailed ==
    /\ yrp_header # NoHeader
    /\ HasFlag(yrp_header.flags, REPLAY_COMPRESSED)
    /\ pc \notin {"inner_header", "inner_contents"}
    /\ lz.failed

\* The sections that need the inner replay.
YrpSections == {"decks", "duel_seed", "duel_options", "duel_resps"}

\* C15: when the decompression of the inner replay fails, the program does
\* not end in success, emits none of the sections that need the inner
\* replay and does not read from the empty buffer the call returned.
C15_Original ==
    InnerDecompressFailed =>
        /\ exit # "success"
        /\ \A i \in 1 .. Len(out) : out[i] \notin YrpSections
        /\ "buffer" \notin oob

\* C16: when analyze has returned success with a sentinel, the inner region
\* lies inside the outer payload, and when main goes on to read the inner
\* header, the header ends inside the outer payload.
C16_Original ==
    /\ (pc = "inner_header" /\ analysis.success
            /\ analysis.old_replay_mode_buffer # Null)
       => analysis.old_replay_mode_buffer + analysis.old_replay_mode_size
              <= PayloadEnd
    /\ (pc = "inner_header" /\ NeedsYrp
            /\ analysis.old_replay_mode_buffer # Null
            /\ ~TooSmall(analysis.old_replay_mode_size))
       => analysis.old_replay_mode_buffer + SizeofReplayHeader <= PayloadEnd

\* ----------------------------------------- properties of the responses
\* C10 (as stated): the loop that reads the responses ends in success only
\* with its cursor at the end of the inner payload, after frames none of
\* which has len = 0 and none of which passes the end of the inner payload.
C10_Original ==
    rs.phase = "print"
    => /\ rs.ptr = rs.sentry
       /\ \A i \in 1 .. Len(rs.resps) :
              rs.resps[i].size # 0 /\ rs.resps[i].outside = 0

\* ---------------------------------------------- properties of the mirror
\* C11: take_deferred_xyz_mat returns the places given to xyz_mat_defer since
\* the last take_deferred_xyz_mat, in the order they were given, and leaves
\* the deferred list empty; xyz_mat_defer appends its place to the list; no
\* other operation of the context changes the list.
C11_Deferred ==
    [][LET call == ctx'.last IN
       /\ call.name = "xyz_mat_defer"
              => ctx'.deferred = ctx.deferred \o <<call.place>>
       /\ call.name = "take_deferred_xyz_mat"
              => ctx'.ret = ctx.deferred /\ ctx'.deferred = <<>>
       /\ call.name \notin {"xyz_mat_defer", "take_deferred_xyz_mat"}
              => ctx'.deferred = ctx.deferred]_vars

\* Two different places are taken in the order they were deferred, and the
\* list is empty after it.
C11_Witness ==
    /\ ctx.last.name = "take_deferred_xyz_mat"
    /\ ctx.ret = <<1, 2>>
    /\ ctx.deferred = <<>>

\* The queries the loop of parse has kept so far, as they came.
Kept == SelectSeq(ctx.msg.seen, LAMBDA q : ~q.erased)

\* C12: in parse, a query is erased if and only if the frame, as it is after
\* the event of the message, has no card at its place, and parse_query is
\* not called on an erased query; the queries left in the message are the
\* other ones in their order, and in each of them a field whose hit bit
\* parse_query returned is absent and every other field is as it came.
C12_Queries ==
    LET m == ctx.msg IN
    m.phase \in {"loop", "done"} =>
        /\ \A i \in 1 .. Len(m.seen) :
               /\ m.seen[i].erased <=> m.seen[i].place \notin ctx.cards
               /\ m.seen[i].erased <=> ~m.seen[i].parsed
        /\ m.it = Len(Kept) + 1
        /\ m.phase = "done" => Len(m.queries) = Len(Kept)
        /\ \A i \in 1 .. Len(Kept) :
               /\ m.queries[i].place = Kept[i].place
               /\ \A k \in DOMAIN ClearableFields :
                      LET f == ClearableFields[k] IN
                      m.queries[i].data[f] =
                          IF f \in Kept[i].hits THEN Null
                          ELSE Kept[i].before[f]

\* An event message of two queries was archived: the first query, whose
\* place has no card, was erased, and the second lost the two fields that
\* were hits and kept the third.
C12_Witness ==
    LET m == ctx.msg IN
    /\ m.phase = "done"
    /\ m.event
    /\ Len(m.seen) = 2
    /\ m.seen[1].erased
    /\ m.seen[2].hits = {"owner", "relations"}
    /\ m.seen[2].before["owner"] = 2
    /\ m.seen[2].before["relations"] = 1
    /\ Len(m.queries) = 1
    /\ m.queries[1].data["owner"] = Null
    /\ m.queries[1].data["relations"] = Null
    /\ m.queries[1].data["code"] = 1

\* ------------------------------------------------- properties of analyze
frames == an.frames
anResult == an.result
Returned == pc = "analyze_done" /\ an.returned
Succeeded == Returned /\ anResult.success
\* The frames the encoder was invoked on, and the sentinel frames.
Encoded == {i \in 1 .. Len(frames) : frames[i].encoded}
Sentinels == {i \in 1 .. Len(frames) : frames[i].msg_type = OLD_REPLAY_FORMAT}

RECURSIVE SumEncoded(_, _)
\* The sum over the encoded frames among the first n of msg_size + extra.
SumEncoded(n, extra) ==
    IF n = 0 THEN 0
    ELSE SumEncoded(n - 1, extra)
         + (IF frames[n].encoded THEN frames[n].msg_size + extra ELSE 0)

\* C1: in a run of analyze that ends in success the encoder read exactly
\* msg_size + 1 bytes for every non-sentinel frame, and a frame of state OK
\* or SWALLOWED for which it read another count ends analyze at once in the
\* failure "Read length for message is mismatched", with no message stream.
C1_FrameLength ==
    /\ Succeeded =>
          \A i \in Encoded : frames[i].bytes_read = frames[i].msg_size + 1
    /\ \A i \in Encoded :
          (/\ frames[i].state \in {"OK", "SWALLOWED"}
           /\ frames[i].bytes_read # frames[i].msg_size + 1)
          => /\ i = Len(frames)
             /\ Returned
             /\ ~anResult.success
             /\ anResult.duel_messages = <<>>
             /\ anResult.old_replay_mode_buffer = Null
             /\ err = "Read length for message is mismatched"

\* C1 witness: a successful run over two encoded frames, one with a payload.
C1_Witness ==
    /\ Succeeded
    /\ Cardinality(Encoded) >= 2
    /\ \E i \in Encoded : frames[i].msg_size >= 1

\* C2 as stated: on success with a sentinel, the sum of msg_size + 1 over the
\* non-sentinel frames plus the recorded inner region size is the length of
\* the stream.
C2_Original ==
    (Succeeded /\ anResult.old_replay_mode_buffer # Null)
    => SumEncoded(Len(frames), 1) + anResult.old_replay_mode_size = an.sentry

\* C2 amended: on success with a sentinel, every frame before the sentinel
\* takes msg_size + 5 bytes of the stream (the four size bytes and the
\* msg_size + 1 bytes the encoder reads), the sentinel's header takes 5, and
\* their sum is the offset of the inner region, which lies at or before the
\* end of the stream; the recorded region size is the sentinel's msg_size,
\* whatever number of bytes remain.
C2_Accounting ==
    (Succeeded /\ anResult.old_replay_mode_buffer # Null)
    => /\ SumEncoded(Len(frames), 5) + 5 = anResult.old_replay_mode_buffer
       /\ anResult.old_replay_mode_buffer <= an.sentry
       /\ anResult.old_replay_mode_size = frames[Len(frames)].msg_size

\* C2 witness: a sentinel after an encoded frame with a payload, with fewer
\* bytes left in the stream than the sentinel's msg_size.
C2_Witness ==
    /\ Succeeded
    /\ anResult.old_replay_mode_buffer # Null
    /\ \E i \in Encoded : frames[i].msg_size >= 1
    /\ anResult.old_replay_mode_buffer + anResult.old_replay_mode_size > an.sentry

\* C3 as stated: the sentinel ends the walk unencoded and the inner region
\* starts right after the byte holding msg_type and is msg_size - 1 long.
C3_Original ==
    \A i \in Sentinels :
        /\ i = Len(frames) /\ ~frames[i].encoded /\ Succeeded
        /\ anResult.old_replay_mode_buffer = an.buffer + 1
        /\ anResult.old_replay_mode_size = frames[i].msg_size - 1

\* C3 amended: the sentinel ends the walk (it is the last frame, analyze has
\* returned success) without the encoder being invoked on it, and the inner
\* region starts right after the byte that now holds msg_type (the cursor
\* after the swap) and is msg_size long.
C3_Sentinel ==
    \A i \in Sentinels :
        /\ i = Len(frames) /\ ~frames[i].encoded /\ Succeeded
        /\ anResult.old_replay_mode_buffer = an.buffer + 1
        /\ anResult.old_replay_mode_size = frames[i].msg_size
        /\ Len(anResult.duel_messages) <= Cardinality(Encoded)

\* C3 witness: a sentinel with a non-zero msg_size met after an encoded frame.
C3_Witness ==
    /\ Succeeded
    /\ Len(frames) >= 2
    /\ frames[Len(frames)].msg_type = OLD_REPLAY_FORMAT
    /\ frames[Len(frames)].msg_size >= 1

\* The frames for which the encoder returned OK, in the order of the stream.
OkFrames ==
    SelectSeq([i \in 1 .. Len(frames) |-> i],
              LAMBDA i : frames[i].state = "OK")

\* C13: when analyze succeeds, the stream it returns has one block for each
\* frame the encoder returned OK for, in the order of the frames and with
\* time offset 0, and none for a SWALLOWED frame; a frame the encoder
\* returned UNKNOWN for is the last one walked and analyze fails on it with
\* the unknown message diagnostic, whatever the frame's length, and returns
\* no stream.
C13_Blocks ==
    /\ Succeeded =>
           /\ Len(anResult.duel_messages) = Len(OkFrames)
           /\ \A k \in 1 .. Len(OkFrames) :
                  /\ anResult.duel_messages[k].msg = OkFrames[k]
                  /\ anResult.duel_messages[k].time_offset_ms = 0
    /\ \A i \in 1 .. Len(frames) :
           frames[i].state = "UNKNOWN" =>
               /\ i = Len(frames)
               /\ Returned
               /\ ~anResult.success
               /\ anResult.duel_messages = <<>>
               /\ an.err = "Encountered unknown core message number"

\* A stream of an OK, a SWALLOWED and an OK frame was decoded: the stream
\* has the first and the third message.
C13_Witness ==
    /\ Succeeded
    /\ Len(frames) = 3
    /\ frames[1].state = "OK"
    /\ frames[2].state = "SWALLOWED"
    /\ frames[3].state = "OK"
    /\ Len(anResult.duel_messages) = 2
    /\ anResult.duel_messages[1].msg = 1
    /\ anResult.duel_messages[2].msg = 3

\* The bytes between the cursor and the end of the stream; negative when
\* the cursor is past the end.
Remaining == an.sentry - an.buffer

\* C14: analyze returns; every iteration of its loop returns or moves the
\* cursor forward; it returns success only with the cursor at the end of the
\* stream or on the sentinel frame; an iteration that starts with the cursor
\* past the end or with a tail of 1 to 4 bytes (or none) returns failure
\* with the short size diagnostic.
C14_Terminates ==
    /\ <>Returned
    /\ [][an'.returned \/ an'.buffer > an.buffer]_vars
    /\ [](Succeeded =>
              \/ Remaining = 0
              \/ frames[Len(frames)].msg_type = OLD_REPLAY_FORMAT)
    /\ [][pc = "analyze" /\ Remaining < 1 + 4 =>
              /\ an'.returned
              /\ ~an'.result.success
              /\ an'.err = "Unexpectedly short size for next message"]_vars

\* analyze walked a frame, found a tail of 1 to 4 bytes and failed.
C14_Witness ==
    /\ Returned
    /\ ~anResult.success
    /\ Len(frames) = 1
    /\ Remaining \in 1 .. 4
    /\ an.err = "Unexpectedly short size for next message"

\* ---------------------------------------------- properties of decompress
DecompressReturned == lz.phase = "returned"
DecompressAccepted == DecompressReturned /\ ~lz.failed

\* C9: decompress, called with max_size = header.size, returns a vector
\* without failing only when the decoder has put out header.size bytes, none
\* of them while the prefix was fed, and the loop was left on LZMA_STREAM_END,
\* on the end of the input, or on LZMA_DATA_ERROR with total_out equal to
\* header.size; the vector then has header.size bytes.  After
\* LZMA_STREAM_END, the end of the input or LZMA_DATA_ERROR it accepts exactly
\* when total_out = header.size; any other decoder result, and any output in
\* the prefix phase, ends in a failure with an empty vector and a diagnostic.
C9_Decompress ==
    /\ DecompressAccepted =>
          /\ lz.total_out = lz.size
          /\ lz.ret = lz.size
          /\ lz.prefix_out = 0
          /\ \/ lz.last = "LZMA_STREAM_END"
             \/ lz.eof
             \/ lz.last = "LZMA_DATA_ERROR" /\ lz.total_out = lz.size
    /\ (DecompressReturned /\ lz.failed) => (lz.ret = 0 /\ err # "")
    /\ (DecompressReturned
        /\ (lz.last \in {"LZMA_STREAM_END", "LZMA_DATA_ERROR"} \/ lz.eof))
          => (lz.failed <=> lz.total_out # lz.size)
    /\ (DecompressReturned /\ ~lz.eof
        /\ lz.last \notin {"LZMA_STREAM_END", "LZMA_DATA_ERROR"})
          => lz.failed
    /\ lz.prefix_out # 0 => (DecompressReturned /\ lz.failed)

\* C9 witness: a data error, before the end of the input, accepted with
\* total_out = header.size > 0.
C9_Witness ==
    /\ DecompressAccepted
    /\ lz.last = "LZMA_DATA_ERROR"
    /\ ~lz.eof
    /\ lz.size >= 1

====
